---- MODULE Spec2Model ----
(***************************************************************************)
(* merrynuts/code_formatter: the HTML / CSS / JS-TS layout engines of      *)
(* src/src/main.rs, the two shared text transforms and the run of main.    *)
(* Text is a sequence of one-character strings.                            *)
(***************************************************************************)
EXTENDS Integers, Sequences, FiniteSets, TLC

\* ------------------------------------------------------------------------
\* Characters and the std string helpers the code calls
\* ------------------------------------------------------------------------

\* char::is_whitespace, on the characters the model uses
is_whitespace(c) == c \in {" ", "\t", "\n", "\r"}

\* the first arm of add_operator_spaces: the characters that start an operator
OperatorChars == {"=", "+", "-", "*", "/", "%", ">", "<", "!", "&", "|", "^", "~"}

OpenDelims == {"(", "[", "{"}

CloseDelims == {")", "]", "}"}

\* str::ends_with(char) for a set of alternative characters
ends_with_char(s, cs) == Len(s) > 0 /\ s[Len(s)] \in cs

\* str::ends_with(&str)
ends_with(s, suf) ==
  /\ Len(suf) <= Len(s)
  /\ \A k \in 1..Len(suf) : s[Len(s) - Len(suf) + k] = suf[k]

\* str::starts_with(&str)
starts_with(s, pre) ==
  /\ Len(pre) <= Len(s)
  /\ \A k \in 1..Len(pre) : s[k] = pre[k]

\* does pat occur in s at index i
occurs_at(s, pat, i) ==
  /\ i + Len(pat) - 1 <= Len(s)
  /\ \A k \in 1..Len(pat) : s[i + k - 1] = pat[k]

\* str::repeat, for a unit of any length
repeat(unit, n) ==
  [k \in 1..(n * Len(unit)) |-> unit[((k - 1) % Len(unit)) + 1]]

\* str::replace: non-overlapping matches, left to right. The loops of this
\* module run over the indices lo..hi by halving the range (the left half is
\* evaluated before the right half starts), the loop state carrying the
\* index i of the next character to take: an index below i was consumed by
\* an earlier iteration.
replace_step(s, pat, to, k, st) ==
  IF k < st.i THEN st
  ELSE IF occurs_at(s, pat, k) THEN [i |-> k + Len(pat), out |-> st.out \o to]
  ELSE [i |-> k + 1, out |-> Append(st.out, s[k])]

RECURSIVE replace_range(_, _, _, _, _, _)
replace_range(s, pat, to, lo, hi, st) ==
  IF lo > hi THEN st
  ELSE IF lo = hi THEN replace_step(s, pat, to, lo, st)
  ELSE LET mid  == (lo + hi) \div 2
           left == replace_range(s, pat, to, lo, mid, st)
       IN IF left.i > mid THEN replace_range(s, pat, to, mid + 1, hi, left) ELSE left

replace(s, pat, to) == replace_range(s, pat, to, 1, Len(s), [i |-> 1, out |-> <<>>]).out

\* str::trim_end_matches(chars)
trim_end_matches(s, cs) ==
  LET keep == {k \in 1..Len(s) : s[k] \notin cs}
  IN IF keep = {} THEN <<>>
     ELSE SubSeq(s, 1, CHOOSE k \in keep : \A m \in keep : m <= k)

\* str::trim_end
trim_end(s) == trim_end_matches(s, {" ", "\t", "\n", "\r"})

\* str::trim_start
trim_start(s) ==
  LET keep == {k \in 1..Len(s) : ~is_whitespace(s[k])}
  IN IF keep = {} THEN <<>>
     ELSE SubSeq(s, CHOOSE k \in keep : \A m \in keep : k <= m, Len(s))

\* str::trim
trim(s) == trim_end(trim_start(s))

\* the index of the first non-whitespace character of s at or after i
\* (the `while peek().is_whitespace() { next() }` loops)
skip_whitespace(s, i) ==
  LET stop == {k \in i..Len(s) : ~is_whitespace(s[k])}
  IN IF stop = {} THEN Len(s) + 1
     ELSE CHOOSE k \in stop : \A m \in stop : k <= m

\* ------------------------------------------------------------------------
\* add_operator_spaces (main.rs 48-115)
\* Each arm maps (s, i, result), i the index of the character c just taken
\* by chars.next(), to [i |-> index of the next character, result |-> ...].
\* ------------------------------------------------------------------------

\* lines 55-63: the operator token s[i..j] built greedily
RECURSIVE op_end(_, _, _)
op_end(s, i, j) ==
  IF /\ j < Len(s)
     /\ \/ s[j + 1] = "="
        \/ (j = i /\ s[i] = "&" /\ s[j + 1] = "&")
        \/ (j = i /\ s[i] = "|" /\ s[j + 1] = "|")
  THEN op_end(s, i, j + 1)
  ELSE j

\* lines 54-73
spaces_operator_arm(s, i, result) ==
  LET j  == op_end(s, i, i)
      r1 == IF result # <<>> /\ ~ends_with_char(result, {" ", "(", "[", "{"})
            THEN Append(result, " ") ELSE result
      r2 == r1 \o SubSeq(s, i, j)
      r3 == IF /\ j < Len(s)
               /\ ~is_whitespace(s[j + 1])
               /\ s[j + 1] \notin {")", "]", "}", ",", ";"}
            THEN Append(r2, " ") ELSE r2
  IN [i |-> j + 1, result |-> r3]

\* lines 74-81
spaces_separator_arm(s, i, result) ==
  LET r1 == Append(result, s[i])
      r2 == IF /\ i < Len(s)
               /\ ~is_whitespace(s[i + 1])
               /\ s[i + 1] \notin {")", "]", "}", "\n"}
            THEN Append(r1, " ") ELSE r1
  IN [i |-> i + 1, result |-> r2]

\* lines 82-95
spaces_open_arm(s, i, result) ==
  LET r1 == IF /\ result # <<>>
               /\ ~ends_with_char(result, {" ", "(", "[", "{", "=", "+", "-", "*", "/"})
            THEN Append(result, " ") ELSE result
  IN [i |-> skip_whitespace(s, i + 1), result |-> Append(r1, s[i])]

\* lines 96-108
spaces_close_arm(s, i, result) ==
  LET r1 == IF result # <<>> /\ ends_with_char(result, {" "})
            THEN SubSeq(result, 1, Len(result) - 1) ELSE result
      r2 == Append(r1, s[i])
      r3 == IF /\ i < Len(s)
               /\ ~is_whitespace(s[i + 1])
               /\ s[i + 1] \notin {")", "]", "}", ",", ";", "+", "-", "*", "/"}
            THEN Append(r2, " ") ELSE r2
  IN [i |-> i + 1, result |-> r3]

\* lines 52-113: one iteration of the loop, the match on c = s[k]
spaces_step(s, k, st) ==
  IF k < st.i THEN st
  ELSE LET c == s[k]
       IN IF c \in OperatorChars THEN spaces_operator_arm(s, k, st.result)
          ELSE IF c \in {",", ";"} THEN spaces_separator_arm(s, k, st.result)
          ELSE IF c \in OpenDelims THEN spaces_open_arm(s, k, st.result)
          ELSE IF c \in CloseDelims THEN spaces_close_arm(s, k, st.result)
          ELSE [i |-> k + 1, result |-> Append(st.result, c)]

RECURSIVE spaces_range(_, _, _, _)
spaces_range(s, lo, hi, st) ==
  IF lo > hi THEN st
  ELSE IF lo = hi THEN spaces_step(s, lo, st)
  ELSE LET mid  == (lo + hi) \div 2
           left == spaces_range(s, lo, mid, st)
       IN IF left.i > mid THEN spaces_range(s, mid + 1, hi, left) ELSE left

add_operator_spaces(s) ==
  spaces_range(s, 1, Len(s), [i |-> 1, result |-> <<>>]).result

\* ------------------------------------------------------------------------
\* split_clustered_brackets (main.rs 118-185)
\* The loop state is [result, bracket_stack, consecutive_brackets,
\* current_line_length]; each arm maps it, for the character s[i], to the
\* next loop state.
\* ------------------------------------------------------------------------

\* the fixed line-length threshold of lines 133 and 145
SplitLineLimit == 80

\* lines 134-137 and 146-149: break the line and re-indent
split_break(st, indent_unit, current_indent) ==
  LET ind == repeat(indent_unit, current_indent + Len(st.bracket_stack))
  IN [st EXCEPT !.result = (@ \o <<"\n">>) \o ind,
                !.current_line_length = Len(ind),
                !.consecutive_brackets = 0]

\* lines 127-139
split_open_arm(s, i, st, indent_unit, current_indent) ==
  LET s1 == [st EXCEPT !.bracket_stack = Append(@, s[i]),
                       !.consecutive_brackets = @ + 1,
                       !.result = Append(@, s[i]),
                       !.current_line_length = @ + 1]
  IN IF s1.consecutive_brackets >= 3 \/ s1.current_line_length > SplitLineLimit
     THEN split_break(s1, indent_unit, current_indent)
     ELSE s1

\* lines 140-162
split_close_arm(s, i, st, indent_unit, current_indent) ==
  LET s1 == [st EXCEPT !.bracket_stack =
                           IF @ # <<>> THEN SubSeq(@, 1, Len(@) - 1) ELSE @,
                       !.consecutive_brackets = @ + 1]
      s2 == IF s1.consecutive_brackets >= 3 \/ s1.current_line_length > SplitLineLimit
            THEN split_break(s1, indent_unit, current_indent)
            ELSE s1
      r3 == IF s2.result # <<>> /\ ends_with_char(s2.result, {" "})
            THEN SubSeq(s2.result, 1, Len(s2.result) - 1) ELSE s2.result
      s4 == [s2 EXCEPT !.result = Append(r3, s[i]), !.current_line_length = @ + 1]
  IN IF /\ i < Len(s)
        /\ ~is_whitespace(s[i + 1])
        /\ s[i + 1] \notin {")", "]", "}", ",", ";"}
     THEN [s4 EXCEPT !.result = Append(@, " "), !.current_line_length = @ + 1]
     ELSE s4

\* lines 163-170
split_newline_arm(s, i, st, indent_unit, current_indent) ==
  LET ind == repeat(indent_unit, current_indent + Len(st.bracket_stack))
  IN [st EXCEPT !.result = Append(@, "\n") \o ind,
                !.consecutive_brackets = 0,
                !.current_line_length = Len(ind)]

\* lines 171-176
split_space_arm(s, i, st) ==
  IF ~ends_with_char(st.result, {" "})
  THEN [st EXCEPT !.result = Append(@, " "), !.current_line_length = @ + 1]
  ELSE st

\* lines 177-181
split_other_arm(s, i, st) ==
  [st EXCEPT !.result = Append(@, s[i]),
             !.current_line_length = @ + 1,
             !.consecutive_brackets = 0]

\* lines 125-183: one iteration of the loop, the match on c = s[i]
split_step(s, i, st, indent_unit, current_indent) ==
  LET c == s[i]
  IN IF c \in OpenDelims THEN split_open_arm(s, i, st, indent_unit, current_indent)
     ELSE IF c \in CloseDelims THEN split_close_arm(s, i, st, indent_unit, current_indent)
     ELSE IF c = "\n" THEN split_newline_arm(s, i, st, indent_unit, current_indent)
     ELSE IF c = " " THEN split_space_arm(s, i, st)
     ELSE split_other_arm(s, i, st)

RECURSIVE split_range(_, _, _, _, _, _)
split_range(s, lo, hi, st, indent_unit, current_indent) ==
  IF lo > hi THEN st
  ELSE IF lo = hi THEN split_step(s, lo, st, indent_unit, current_indent)
  ELSE LET mid  == (lo + hi) \div 2
           left == split_range(s, lo, mid, st, indent_unit, current_indent)
       IN IF left.current_line_length >= 0
          THEN split_range(s, mid + 1, hi, left, indent_unit, current_indent)
          ELSE left

split_clustered_brackets(s, indent_unit, current_indent) ==
  split_range(s, 1, Len(s),
              [result |-> <<>>, bracket_stack |-> <<>>,
               consecutive_brackets |-> 0, current_line_length |-> 0],
              indent_unit, current_indent).result

\* ------------------------------------------------------------------------
\* format_html (main.rs 190-351)
\* The local variables of the running engine are the fields of one record;
\* chars is the index of the character the next chars.next() returns, and
\* panicked records that the iteration hit a panic of the Rust runtime.
\* ------------------------------------------------------------------------

\* line 290: the tag strings treated as void elements
VoidTags == {<<"m", "e", "t", "a">>, <<"l", "i", "n", "k">>, <<"i", "m", "g">>,
             <<"b", "r">>, <<"h", "r">>}

\* lines 191-200: the locals before the loop
html_init ==
  [chars |-> 1, result |-> <<>>, current_indent_level |-> 0,
   in_tag |-> FALSE, in_comment |-> FALSE, current_line_length |-> 0,
   panicked |-> FALSE]

\* lines 221-226: in_comment after tag_buf = content[i+1..j] was extended to j
tag_in_comment(content, i, j) ==
  LET tag_buf == SubSeq(content, i + 1, j)
  IN starts_with(tag_buf, <<"!", "-", "-">>) /\ ~ends_with(tag_buf, <<"-", "-", ">">>)

\* lines 216-231: the index of the last character the tag loop consumes, for
\* a tag whose `<` is content[i]: the first `>` outside a comment, else the
\* end of the input
tag_end(content, i) ==
  LET stop == {j \in (i + 1)..Len(content) :
                 content[j] = ">" /\ ~tag_in_comment(content, i, j)}
  IN IF stop = {} THEN Len(content)
     ELSE CHOOSE j \in stop : \A m \in stop : j <= m

\* lines 250-262: the index after a quoted attribute value opened at tag_buf[k]
quote_end(tag_buf, k) ==
  LET close == {j \in (k + 1)..Len(tag_buf) : tag_buf[j] = tag_buf[k]}
  IN IF close = {} THEN Len(tag_buf) + 1
     ELSE (CHOOSE j \in close : \A m \in close : j <= m) + 1

\* lines 236-272: one iteration of the attribute loop, the match on tag_buf[k]
tag_step(tag_buf, k, st) ==
  IF k < st.i THEN st
  ELSE LET tc == tag_buf[k]
       IN IF tc = "=" THEN
            [i |-> skip_whitespace(tag_buf, k + 1),
             formatted_tag |-> st.formatted_tag \o <<" ", "=", " ">>]
          ELSE IF tc \in {"\"", "'"} THEN
            [i |-> quote_end(tag_buf, k),
             formatted_tag |-> st.formatted_tag \o SubSeq(tag_buf, k, quote_end(tag_buf, k) - 1)]
          ELSE IF tc = " " THEN
            [i |-> k + 1,
             formatted_tag |-> IF ~ends_with_char(st.formatted_tag, {" ", "="})
                               THEN Append(st.formatted_tag, tc)
                               ELSE st.formatted_tag]
          ELSE [i |-> k + 1, formatted_tag |-> Append(st.formatted_tag, tc)]

RECURSIVE tag_range(_, _, _, _)
tag_range(tag_buf, lo, hi, st) ==
  IF lo > hi THEN st
  ELSE IF lo = hi THEN tag_step(tag_buf, lo, st)
  ELSE LET mid  == (lo + hi) \div 2
           left == tag_range(tag_buf, lo, mid, st)
       IN IF left.i > mid THEN tag_range(tag_buf, mid + 1, hi, left) ELSE left

\* lines 234-272: the tag text with its attributes normalised
format_tag(tag_buf) ==
  tag_range(tag_buf, 1, Len(tag_buf), [i |-> 1, formatted_tag |-> <<>>]).formatted_tag

\* lines 275, 290, 299: the class of the captured tag
tag_class(tag_str) ==
  IF starts_with(tag_str, <<"/">>) THEN "closing"
  ELSE IF ends_with(tag_str, <<"/">>) \/ tag_str \in VoidTags THEN "self_closing"
  ELSE IF ~starts_with(tag_str, <<"!">>) /\ ~starts_with(tag_str, <<"?">>) THEN "opening"
  ELSE "other"

\* html_unindent without the ends_with test of line 278: the truncation is
\* always attempted
html_unindent_unguarded(result, indent_unit, level_after) ==
  IF Len(result) >= Len(indent_unit)
  THEN [result |-> SubSeq(result, 1, Len(result) - Len(indent_unit)), panicked |-> FALSE]
  ELSE [result |-> result, panicked |-> TRUE]

\* lines 276-280: the closing tag takes back one indent unit of the buffer.
\* result.len() - indent_unit.len() is computed in usize: an underflow is a
\* panic, recorded in the field panicked.
html_unindent(result, indent_unit, level_after) ==
  IF ends_with(result, repeat(indent_unit, level_after + 1))
  THEN IF Len(result) >= Len(indent_unit)
       THEN [result |-> SubSeq(result, 1, Len(result) - Len(indent_unit)), panicked |-> FALSE]
       ELSE [result |-> result, panicked |-> TRUE]
  ELSE [result |-> result, panicked |-> FALSE]

\* lines 204-319: the arm of `<` outside a tag and a comment
html_tag_arm(content, st, indent_unit, max_line_length) ==
  LET i    == st.chars
      wrap == /\ st.result # <<>>
              /\ ~ends_with_char(st.result, {"\n", " "})
              /\ st.current_line_length > max_line_length
      r0   == IF wrap
              THEN (Append(st.result, "\n") \o repeat(indent_unit, st.current_indent_level))
              ELSE st.result
      r1   == Append(r0, "<")
      last == tag_end(content, i)
      formatted_tag == format_tag(SubSeq(content, i + 1, last))
      tag_str == trim_end_matches(formatted_tag, {">"})
      class == tag_class(tag_str)
      level == IF class = "closing" THEN (IF st.current_indent_level > 0
                                          THEN st.current_indent_level - 1 ELSE 0)
               ELSE IF class = "opening" THEN st.current_indent_level + 1
               ELSE st.current_indent_level
      un   == html_unindent(r1, indent_unit, level)
      r2   == IF class = "closing" THEN Append(un.result \o tag_str, ">")
              ELSE r1 \o formatted_tag
      ind  == repeat(indent_unit, level)
  IN [chars |-> last + 1,
      result |-> Append(r2, "\n") \o ind,
      current_indent_level |-> level,
      in_tag |-> FALSE,
      in_comment |-> tag_in_comment(content, i, last),
      current_line_length |-> Len(ind),
      panicked |-> class = "closing" /\ un.panicked]

\* lines 320-336: text outside a tag and a comment
html_text_arm(content, st, indent_unit, max_line_length) ==
  LET c == content[st.chars]
      n == [st EXCEPT !.chars = @ + 1]
  IN IF is_whitespace(c)
     THEN IF ends_with_char(st.result, {" ", "\t"}) THEN n
          ELSE [n EXCEPT !.result = Append(@, " "), !.current_line_length = @ + 1]
     ELSE IF st.current_line_length + 1 > max_line_length
          THEN LET ind == repeat(indent_unit, st.current_indent_level)
               IN [n EXCEPT !.result = (Append(@, c) \o <<"\n">>) \o ind,
                            !.current_line_length = Len(ind)]
          ELSE [n EXCEPT !.result = Append(@, c), !.current_line_length = @ + 1]

\* lines 202-342: one iteration of the loop
html_step(content, st, indent_unit, max_line_length) ==
  LET c == content[st.chars]
  IN IF c = "<" /\ ~st.in_tag /\ ~st.in_comment
     THEN html_tag_arm(content, st, indent_unit, max_line_length)
     ELSE IF ~st.in_tag /\ ~st.in_comment
     THEN html_text_arm(content, st, indent_unit, max_line_length)
     ELSE [st EXCEPT !.chars = @ + 1, !.result = Append(@, c),
                     !.current_line_length = @ + 1]

\* html_finish without the guarantee of lines 347-349
html_finish_no_newline(result) ==
  trim_end_matches(replace(add_operator_spaces(result), <<" ", " ">>, <<" ">>), {" ", "\t"})

\* lines 344-350: the final pass
html_finish(result) ==
  LET spaced  == add_operator_spaces(result)
      trimmed == trim_end_matches(replace(spaced, <<" ", " ">>, <<" ">>), {" ", "\t"})
  IN IF ~ends_with_char(trimmed, {"\n"}) THEN Append(trimmed, "\n") ELSE trimmed

\* ------------------------------------------------------------------------
\* format_css (main.rs 356-518)
\* ------------------------------------------------------------------------

\* lines 357-365: the locals before the loop
css_init ==
  [chars |-> 1, result |-> <<>>, current_indent_level |-> 0,
   in_brace |-> FALSE, in_comment |-> FALSE,
   current_declarations |-> <<>>, temp_char |-> <<>>, panicked |-> FALSE]

\* lines 423, 459, 488: decl.replace(":", ": ")
format_decl(decl) == replace(decl, <<":">>, <<":", " ">>)

\* line 426: formatted_decls.join("; ")
RECURSIVE join_decls(_)
join_decls(decls) ==
  IF decls = <<>> THEN <<>>
  ELSE IF Len(decls) = 1 THEN format_decl(decls[1])
  ELSE (format_decl(decls[1]) \o <<";", " ">>) \o join_decls(Tail(decls))

\* lines 427 and 493: the rule is rendered on one line
fits_compact(decls, indent_unit, level, max_line_length) ==
  /\ Len(join_decls(decls)) + Len(indent_unit) * level < max_line_length
  /\ Len(decls) <= 3

\* lines 431-438: one declaration per line, the first one on the current line
RECURSIVE expand_decls(_, _, _)
expand_decls(decls, ind, first) ==
  IF decls = <<>> THEN <<>>
  ELSE ((IF first THEN <<>> ELSE <<"\n">> \o ind) \o format_decl(decls[1]) \o <<";">>)
       \o expand_decls(Tail(decls), ind, FALSE)

\* lines 425-440: the declarations of the rule, as the `}` arm emits them
render_decls(decls, indent_unit, level, max_line_length) ==
  IF decls = <<>> THEN <<>>
  ELSE IF fits_compact(decls, indent_unit, level, max_line_length)
  THEN Append(join_decls(decls), ";")
  ELSE expand_decls(decls, repeat(indent_unit, level), TRUE)

\* lines 369-380: `/` outside a comment and outside a rule body
css_slash_arm(content, st) ==
  IF st.chars < Len(content) /\ content[st.chars + 1] = "*"
  THEN [st EXCEPT !.chars = @ + 2, !.in_comment = TRUE, !.result = @ \o <<"/", "*">>]
  ELSE [st EXCEPT !.chars = @ + 1, !.temp_char = Append(@, "/")]

\* lines 381-393: `*` inside a comment
css_star_arm(content, st, indent_unit) ==
  IF st.chars < Len(content) /\ content[st.chars + 1] = "/"
  THEN [st EXCEPT !.chars = @ + 2, !.in_comment = FALSE,
                  !.result = (@ \o <<"*", "/", "\n">>)
                             \o repeat(indent_unit, st.current_indent_level)]
  ELSE [st EXCEPT !.chars = @ + 1, !.result = Append(@, "*")]

\* lines 394-410: `{` outside a comment
css_open_arm(st, indent_unit) ==
  LET current_selector == trim(st.temp_char)
      r1 == IF current_selector # <<>>
            THEN (st.result \o repeat(indent_unit, st.current_indent_level))
                 \o Append(current_selector, " ")
            ELSE st.result
  IN [st EXCEPT !.chars = @ + 1, !.temp_char = <<>>,
                !.current_indent_level = @ + 1, !.in_brace = TRUE,
                !.result = (Append(r1, "{") \o <<"\n">>)
                           \o repeat(indent_unit, st.current_indent_level + 1)]

\* lines 412-418 and 480-485: the pending text becomes the last declaration
css_pending(st) ==
  IF st.temp_char # <<>> /\ trim(st.temp_char) # <<>>
  THEN Append(st.current_declarations, trim(st.temp_char))
  ELSE st.current_declarations

\* lines 411-452: `}` outside a comment
css_close_arm(st, indent_unit, max_line_length) ==
  LET decls == css_pending(st)
      level == IF st.current_indent_level > 0 THEN st.current_indent_level - 1 ELSE 0
      ind   == repeat(indent_unit, level)
  IN [st EXCEPT !.chars = @ + 1, !.temp_char = <<>>, !.current_declarations = <<>>,
                !.current_indent_level = level, !.in_brace = FALSE,
                !.result = ((((@ \o render_decls(decls, indent_unit,
                                                 st.current_indent_level, max_line_length))
                              \o <<"\n">>) \o ind) \o <<"}", "\n">>) \o ind]

\* lines 453-465: `;` outside a comment and inside a rule body
css_semicolon_arm(st, indent_unit) ==
  LET decl_str == trim(st.temp_char)
  IN IF decl_str # <<>>
     THEN [st EXCEPT !.chars = @ + 1, !.temp_char = <<>>,
                     !.current_declarations = Append(@, decl_str),
                     !.result = ((@ \o format_decl(decl_str)) \o <<";", "\n">>)
                                \o repeat(indent_unit, st.current_indent_level)]
     ELSE [st EXCEPT !.chars = @ + 1, !.temp_char = <<>>]

\* lines 466-471: any other character outside a comment
css_text_arm(content, st) ==
  LET c == content[st.chars]
  IN IF is_whitespace(c) /\ ends_with_char(st.temp_char, {" ", "\t"})
     THEN [st EXCEPT !.chars = @ + 1]
     ELSE [st EXCEPT !.chars = @ + 1, !.temp_char = Append(@, c)]

\* lines 367-476: one iteration of the loop
css_step(content, st, indent_unit, max_line_length) ==
  LET c == content[st.chars]
  IN IF c = "/" /\ ~st.in_comment /\ ~st.in_brace THEN css_slash_arm(content, st)
     ELSE IF c = "*" /\ st.in_comment THEN css_star_arm(content, st, indent_unit)
     ELSE IF c = "{" /\ ~st.in_comment THEN css_open_arm(st, indent_unit)
     ELSE IF c = "}" /\ ~st.in_comment THEN css_close_arm(st, indent_unit, max_line_length)
     ELSE IF c = ";" /\ ~st.in_comment /\ st.in_brace THEN css_semicolon_arm(st, indent_unit)
     ELSE IF ~st.in_comment THEN css_text_arm(content, st)
     ELSE [st EXCEPT !.chars = @ + 1, !.result = Append(@, c)]

\* lines 478-512: the rule still open at the end of the input
css_flush(st, indent_unit, max_line_length) ==
  LET decls == css_pending(st)
      ind   == repeat(indent_unit, st.current_indent_level)
      body  == IF fits_compact(decls, indent_unit, st.current_indent_level, max_line_length)
               THEN Append(join_decls(decls), ";")
               ELSE expand_decls(decls, ind, FALSE)
      level == IF st.current_indent_level > 0 THEN st.current_indent_level - 1 ELSE 0
  IN IF (st.temp_char # <<>> \/ st.current_declarations # <<>>) /\ decls # <<>>
     THEN IF st.in_brace
          THEN [st EXCEPT !.current_declarations = decls,
                          !.current_indent_level = level,
                          !.result = ((((@ \o ind) \o body) \o <<"\n">>)
                                      \o repeat(indent_unit, level)) \o <<"}", "\n">>]
          ELSE [st EXCEPT !.current_declarations = decls,
                          !.result = (@ \o ind) \o body]
     ELSE [st EXCEPT !.current_declarations = decls]

\* lines 514-517: the final pass
css_finish(result) ==
  Append(trim_end(replace(add_operator_spaces(result),
                          <<"\n", "\n", "\n">>, <<"\n", "\n">>)), "\n")

\* ------------------------------------------------------------------------
\* format_js_ts (main.rs 523-688)
\* in_string is "None" or the quote character that opened the literal.
\* ------------------------------------------------------------------------

\* lines 524-535: the locals before the loop
js_init ==
  [chars |-> 1, result |-> <<>>, current_indent_level |-> 0,
   in_string |-> "None", in_comment_single |-> FALSE, in_comment_multi |-> FALSE,
   current_statement |-> <<>>, current_line_length |-> 0, panicked |-> FALSE]

\* chars.peek() == Some(&x)
peek_is(content, st, x) == st.chars < Len(content) /\ content[st.chars + 1] = x

\* lines 538-547: inside a `//` comment
js_comment_single_arm(content, st, indent_unit) ==
  LET c == content[st.chars]
      ind == repeat(indent_unit, st.current_indent_level)
  IN IF c = "\n"
     THEN [st EXCEPT !.chars = @ + 1, !.in_comment_single = FALSE,
                     !.result = Append(@, c) \o ind,
                     !.current_line_length = Len(ind)]
     ELSE [st EXCEPT !.chars = @ + 1, !.result = Append(@, c)]

\* lines 549-560: inside a `/* */` comment
js_comment_multi_arm(content, st, indent_unit) ==
  LET c == content[st.chars]
      ind == repeat(indent_unit, st.current_indent_level)
  IN IF c = "*" /\ peek_is(content, st, "/")
     THEN [st EXCEPT !.chars = @ + 2, !.in_comment_multi = FALSE,
                     !.result = (@ \o <<"*", "/", "\n">>) \o ind,
                     !.current_line_length = Len(ind)]
     ELSE [st EXCEPT !.chars = @ + 1, !.result = Append(@, c)]

\* lines 562-569: inside a string literal
js_string_arm(content, st) ==
  LET c == content[st.chars]
  IN [st EXCEPT !.chars = @ + 1, !.current_statement = Append(@, c),
                !.current_line_length = @ + 1,
                !.in_string = IF c = st.in_string THEN "None" ELSE @]

\* lines 572-576: an opening quote
js_quote_arm(content, st) ==
  [st EXCEPT !.chars = @ + 1, !.in_string = content[st.chars],
             !.current_statement = Append(@, content[st.chars]),
             !.current_line_length = @ + 1]

\* lines 577-594: `//` or `/*` opens a comment; chars.next().unwrap() takes
\* the character the guard peeked, and panics when there is none
js_comment_open_arm(content, st) ==
  IF st.chars < Len(content)
  THEN [st EXCEPT !.chars = @ + 2, !.current_statement = <<>>,
                  !.in_comment_single = (content[st.chars + 1] = "/"),
                  !.in_comment_multi = (content[st.chars + 1] = "*"),
                  !.result = (@ \o st.current_statement)
                             \o <<content[st.chars], content[st.chars + 1]>>]
  ELSE [st EXCEPT !.panicked = TRUE]

\* lines 595-610: an opening delimiter
js_open_arm(content, st, indent_unit) ==
  LET c == content[st.chars]
      level == IF c = "{" THEN st.current_indent_level + 1 ELSE st.current_indent_level
      r1 == st.result \o Append(st.current_statement, c)
  IN [st EXCEPT !.chars = @ + 1, !.current_statement = <<>>,
                !.current_indent_level = level,
                !.result = IF c = "{"
                           THEN Append(r1, "\n") \o repeat(indent_unit, level)
                           ELSE r1,
                !.current_line_length = Len(indent_unit) * level]

\* lines 611-637: a closing delimiter
js_close_arm(content, st, indent_unit, max_line_length) ==
  LET c == content[st.chars]
      level == IF c = "}"
               THEN (IF st.current_indent_level > 0 THEN st.current_indent_level - 1 ELSE 0)
               ELSE st.current_indent_level
      ind == repeat(indent_unit, level)
      r1 == IF c = "}" THEN Append(st.result, "\n") \o ind ELSE st.result
      r2 == Append(r1 \o st.current_statement, c)
      wrap == /\ st.chars < Len(content)
              /\ content[st.chars + 1] \notin {",", ";", "}", ")"}
              /\ st.current_line_length + 1 > max_line_length
  IN [st EXCEPT !.chars = @ + 1, !.current_statement = <<>>,
                !.current_indent_level = level,
                !.result = IF wrap THEN Append(r2, "\n") \o ind ELSE r2,
                !.current_line_length = IF wrap THEN Len(ind) ELSE @ + 1]

\* lines 638-648: `;` ends the statement
js_semicolon_arm(st, indent_unit) ==
  LET ind == repeat(indent_unit, st.current_indent_level)
  IN [st EXCEPT !.chars = @ + 1, !.current_statement = <<>>,
                !.result = (@ \o add_operator_spaces(Append(st.current_statement, ";")))
                           \o (<<"\n">> \o ind),
                !.current_line_length = Len(ind)]

\* lines 649-660: `,`
js_comma_arm(st, indent_unit, max_line_length) ==
  LET ind == repeat(indent_unit, st.current_indent_level)
  IN IF st.current_line_length + 1 > max_line_length
     THEN [st EXCEPT !.chars = @ + 1, !.current_statement = <<>>,
                     !.result = (@ \o Append(st.current_statement, ","))
                                \o (<<"\n">> \o ind),
                     !.current_line_length = Len(ind)]
     ELSE [st EXCEPT !.chars = @ + 1, !.current_statement = Append(@, ","),
                     !.current_line_length = @ + 1]

\* lines 661-667: any other character
js_text_arm(content, st) ==
  LET c == content[st.chars]
  IN IF is_whitespace(c) /\ ends_with_char(st.current_statement, {" ", "\t"})
     THEN [st EXCEPT !.chars = @ + 1]
     ELSE [st EXCEPT !.chars = @ + 1, !.current_statement = Append(@, c),
                     !.current_line_length = @ + 1]

\* lines 537-669: one iteration of the loop
js_step(content, st, indent_unit, max_line_length) ==
  LET c == content[st.chars]
  IN IF st.in_comment_single THEN js_comment_single_arm(content, st, indent_unit)
     ELSE IF st.in_comment_multi THEN js_comment_multi_arm(content, st, indent_unit)
     ELSE IF st.in_string # "None" THEN js_string_arm(content, st)
     ELSE IF c \in {"\"", "'"} THEN js_quote_arm(content, st)
     ELSE IF c = "/" /\ (peek_is(content, st, "/") \/ peek_is(content, st, "*"))
          THEN js_comment_open_arm(content, st)
     ELSE IF c \in OpenDelims THEN js_open_arm(content, st, indent_unit)
     ELSE IF c \in CloseDelims THEN js_close_arm(content, st, indent_unit, max_line_length)
     ELSE IF c = ";" THEN js_semicolon_arm(st, indent_unit)
     ELSE IF c = "," THEN js_comma_arm(st, indent_unit, max_line_length)
     ELSE js_text_arm(content, st)

\* lines 671-682: the statement still pending at the end of the input
js_flush(st, indent_unit) ==
  LET final_stmt == split_clustered_brackets(add_operator_spaces(st.current_statement),
                                             indent_unit, st.current_indent_level)
      r1 == (st.result \o repeat(indent_unit, st.current_indent_level)) \o final_stmt
      r2 == IF ~ends_with_char(final_stmt, {";", "}", ")", "]"}) THEN Append(r1, ";") ELSE r1
  IN IF st.current_statement # <<>>
     THEN [st EXCEPT !.result = Append(r2, "\n")]
     ELSE st

\* lines 684-687: the final pass
js_finish(result, indent_unit, current_indent_level) ==
  Append(trim_end(replace(split_clustered_brackets(result, indent_unit, current_indent_level),
                          <<" ", " ">>, <<" ">>)), "\n")

\* ------------------------------------------------------------------------
\* get_file_type (main.rs 28-42) and format_code (main.rs 691-702)
\* ------------------------------------------------------------------------

UpperCase == <<"A", "B", "C", "D", "E", "F", "G", "H", "I", "J", "K", "L", "M",
               "N", "O", "P", "Q", "R", "S", "T", "U", "V", "W", "X", "Y", "Z">>

LowerCase == <<"a", "b", "c", "d", "e", "f", "g", "h", "i", "j", "k", "l", "m",
               "n", "o", "p", "q", "r", "s", "t", "u", "v", "w", "x", "y", "z">>

\* str::to_lowercase (line 35)
to_lowercase(s) ==
  [k \in 1..Len(s) |->
     IF \E u \in 1..Len(UpperCase) : UpperCase[u] = s[k]
     THEN LowerCase[CHOOSE u \in 1..Len(UpperCase) : UpperCase[u] = s[k]]
     ELSE s[k]]

\* Path::file_name: the text after the last `/`
file_name(path) ==
  LET slashes == {k \in 1..Len(path) : path[k] = "/"}
  IN IF slashes = {} THEN path
     ELSE SubSeq(path, (CHOOSE k \in slashes : \A m \in slashes : m <= k) + 1, Len(path))

\* Path::extension (lines 29-31): the text after the last `.` of the file
\* name; none when the name is empty, has no `.`, or has its only `.` first
extension(path) ==
  LET name == file_name(path)
      dots == {k \in 1..Len(name) : name[k] = "."}
      last == CHOOSE k \in dots : \A m \in dots : m <= k
  IN IF dots = {} \/ last = 1 THEN [some |-> FALSE, ext |-> <<>>]
     ELSE [some |-> TRUE, ext |-> SubSeq(name, last + 1, Len(name))]

Html == <<"h", "t", "m", "l">>

Css == <<"c", "s", "s">>

Js == <<"j", "s">>

Ts == <<"t", "s">>

\* lines 35-41: the four supported types
SupportedTypes == {Html, Css, Js, Ts}

\* get_file_type without the to_lowercase of line 35
get_file_type_case_sensitive(file_path) ==
  LET e == extension(file_path)
  IN IF ~e.some THEN [ok |-> FALSE, value |-> <<>>, error |-> "MissingExtension"]
     ELSE IF e.ext \in SupportedTypes
     THEN [ok |-> TRUE, value |-> e.ext, error |-> "none"]
     ELSE [ok |-> FALSE, value |-> <<>>, error |-> "UnsupportedExtension"]

\* lines 28-42
get_file_type(file_path) ==
  LET e == extension(file_path)
  IN IF ~e.some THEN [ok |-> FALSE, value |-> <<>>, error |-> "MissingExtension"]
     ELSE IF to_lowercase(e.ext) \in SupportedTypes
     THEN [ok |-> TRUE, value |-> to_lowercase(e.ext), error |-> "none"]
     ELSE [ok |-> FALSE, value |-> <<>>, error |-> "UnsupportedExtension"]

\* lines 692-701: the engine format_code dispatches to, "none" for the error arm
engine_of(file_type) ==
  IF file_type = Html THEN "format_html"
  ELSE IF file_type = Css THEN "format_css"
  ELSE IF file_type \in {Js, Ts} THEN "format_js_ts"
  ELSE "none"

\* the locals of the engine at its entry
engine_init(engine) ==
  IF engine = "format_html" THEN html_init
  ELSE IF engine = "format_css" THEN css_init
  ELSE js_init

\* ------------------------------------------------------------------------
\* Inputs
\* ------------------------------------------------------------------------

\* the most fragments one input file is made of
MaxFrags == 3

\* the longest text fragment given to add_operator_spaces on its own
MaxFragmentLen == 4

HtmlFrags ==
  {<<"<", "p", ">">>,
   <<"<", "/", "p", ">">>,
   <<"<", "b", "r", ">">>,
   <<"<", "i", "m", "g", " ", "s", "r", "c", "=", "\"", "a", ".", "p", "n", "g", "\"", ">">>,
   <<"x", " ", "y">>,
   <<"<", "!", "-", "-">>,
   <<"\r", "\n">>}

CssFrags ==
  {<<"a", "{">>,
   <<"b", ":", "c", ";">>,
   <<"d", ":", "e">>,
   <<"}">>,
   <<"/", "*">>,
   <<"\r", "\n">>}

JsFrags ==
  {<<"f", "(", "a", ",", "b", ")">>,
   <<"{">>,
   <<"}">>,
   <<"a", "+", "b", ";">>,
   <<"'", "{">>,
   <<"/", "/", "c", "\n">>}

\* the inputs of the examples of spec.md, section 8
CssExample == <<"a", "{", "c", "o", "l", "o", "r", ":", "r", "e", "d", ";", "m", "a", "r", "g", "i", "n", ":", "0", ";", "p", "a", "d", "d", "i", "n", "g", ":", "0", "}">>

JsExample == <<"f", "u", "n", "c", "t", "i", "o", "n", " ", "f", "(", "a", ",", "b", ")", "{", "r", "e", "t", "u", "r", "n", " ", "a", "+", "b", ";", "}">>

\* a statement holding a string literal with an operator inside
JsLiteralExample == <<"s", "=", "'", "a", "+", "b", "'", ";">>

\* a tag with a quoted attribute value holding `=`
HtmlAttrExample == <<"<", "a", " ", "b", "=", "\"", "x", "=", "y", "\"", ">">>

CssLongRule == <<"a", "{", "b", ":", "c", ";", "d", ":", "e", ";", "f", ":", "g", ";", "h", ":", "i", "}">>

RECURSIVE flatten(_)
flatten(fs) == IF fs = <<>> THEN <<>> ELSE fs[1] \o flatten(Tail(fs))

texts_of(frags) == {flatten(fs) : fs \in UNION {[1..k -> frags] : k \in 0..MaxFrags}}

Contents ==
  texts_of(HtmlFrags) \cup texts_of(CssFrags) \cup texts_of(JsFrags)
  \cup {CssExample, JsExample, CssLongRule, JsLiteralExample, HtmlAttrExample}

\* -n / --indent (u8) and -l / --line-length (usize)
Indents == {0, 2}

LineLengths == {4, 80}

\* the paths run on every input text
SupportedPaths ==
  {<<"a", ".", "h", "t", "m", "l">>,
   <<"a", ".", "c", "s", "s">>,
   <<"a", ".", "j", "s">>}

\* the input texts the other paths and file types are run on
Examples == {CssExample, JsExample, CssLongRule, <<"<", "/", "p", ">">>, <<>>}

\* the other paths: the fourth type, other letter cases, no extension,
\* unsupported extensions
OtherPaths ==
  {<<"a", ".", "t", "s">>,
   <<"a", ".", "H", "T", "M", "L">>,
   <<"a", ".", "C", "s", "s">>,
   <<"a", ".", "J", "S">>,
   <<"a", ".", "t", "S">>,
   <<"a", ".", "t", "x", "t">>,
   <<"a", ".", "h", "t", "m">>,
   <<"a">>,
   <<".", "c", "s", "s">>,
   <<"a", ".">>,
   <<"x", ".", "j", "s", "/", "a">>}

\* the file types format_code is called with on its own
CallTypes == SupportedTypes \cup {<<"H", "T", "M", "L">>, <<"t", "x", "t">>, <<>>}

\* the characters of the fragments given to add_operator_spaces on its own
SpacerChars == {"a", " ", "+", "=", "(", ")", ","}

Fragments == UNION {[1..k -> SpacerChars] : k \in 0..MaxFragmentLen}

\* the characters of the texts given to split_clustered_brackets on its own
BracketChars == {"(", ")", "{", "}", "a", " ", "\n"}

BracketTexts == UNION {[1..k -> BracketChars] : k \in 0..MaxFragmentLen}

\* the base levels split_clustered_brackets is called with
BaseLevels == {0, 1}

\* ------------------------------------------------------------------------
\* The run
\* ------------------------------------------------------------------------

VARIABLES
  pc,            \* where the run is
  caller,        \* "main": format_code was called by main; "direct": on its own;
                 \* "again": by main, run on the output of its previous run
  input,         \* cli.input
  raw_content,   \* the text of the input file
  indent,        \* cli.indent
  line_length,   \* cli.line_length
  content,       \* main's content, format_code's content
  file_type,     \* main's file_type, format_code's file_type
  scan,          \* the local variables of the running engine
  formatted,     \* what format_code returned
  output,        \* the output file
  error          \* the error main ended with

vars == <<pc, caller, input, raw_content, indent, line_length, content, file_type,
          scan, formatted, output, error>>

indent_unit == [k \in 1..indent |-> " "]

NotReturned == [ok |-> FALSE, value |-> <<>>, error |-> "none"]

NoScan == [chars |-> 0]

NoOutput == [written |-> FALSE, text |-> <<>>]

\* main is entered with the command line parsed and the input file on disk
Init ==
  /\ pc = "main"
  /\ caller = "main"
  /\ \/ input \in SupportedPaths /\ raw_content \in Contents
     \/ input \in OtherPaths /\ raw_content \in Examples
  /\ indent \in Indents
  /\ line_length \in LineLengths
  /\ content = <<>>
  /\ file_type = <<>>
  /\ scan = NoScan
  /\ formatted = NotReturned
  /\ output = NoOutput
  /\ error = "none"

\* lines 706-711: read_to_string, then the carriage returns are removed and
\* the text is trimmed; the read can fail
ReadInput ==
  /\ pc = "main"
  /\ \/ /\ content' = trim(replace(raw_content, <<"\r">>, <<>>))
        /\ pc' = "get_file_type"
        /\ UNCHANGED error
     \/ /\ pc' = "failed"
        /\ error' = "InputReadFailure"
        /\ UNCHANGED content
  /\ UNCHANGED <<caller, input, raw_content, indent, line_length, file_type, scan,
                 formatted, output>>

\* line 713
GetFileType ==
  /\ pc = "get_file_type"
  /\ LET r == get_file_type(input)
     IN IF r.ok
        THEN pc' = "format_code" /\ file_type' = r.value /\ UNCHANGED error
        ELSE pc' = "failed" /\ error' = r.error /\ UNCHANGED file_type
  /\ UNCHANGED <<caller, input, raw_content, indent, line_length, content, scan,
                 formatted, output>>

\* lines 691-702: the dispatch
FormatCode ==
  /\ pc = "format_code"
  /\ LET engine == engine_of(file_type)
     IN IF engine # "none"
        THEN pc' = engine /\ scan' = engine_init(engine) /\ UNCHANGED formatted
        ELSE /\ pc' = "returned"
             /\ formatted' = [ok |-> FALSE, value |-> <<>>, error |-> "UnsupportedFileType"]
             /\ UNCHANGED scan
  /\ UNCHANGED <<caller, input, raw_content, indent, line_length, content, file_type,
                 output, error>>

\* one iteration of the loop of the running engine
Scan(engine, next) ==
  /\ pc = engine
  /\ scan.chars <= Len(content)
  /\ scan' = next
  /\ pc' = IF next.panicked THEN "panicked" ELSE engine
  /\ UNCHANGED <<caller, input, raw_content, indent, line_length, content, file_type,
                 formatted, output, error>>

\* the engine returns Ok(formatted) at the end of the input
Return(engine, last, text) ==
  /\ pc = engine
  /\ scan.chars > Len(content)
  /\ scan' = last
  /\ formatted' = [ok |-> TRUE, value |-> text, error |-> "none"]
  /\ pc' = "returned"
  /\ UNCHANGED <<caller, input, raw_content, indent, line_length, content, file_type,
                 output, error>>

HtmlStep == Scan("format_html", html_step(content, scan, indent_unit, line_length))

HtmlReturn == Return("format_html", scan, html_finish(scan.result))

CssStep == Scan("format_css", css_step(content, scan, indent_unit, line_length))

CssReturn ==
  LET last == css_flush(scan, indent_unit, line_length)
  IN Return("format_css", last, css_finish(last.result))

JsStep == Scan("format_js_ts", js_step(content, scan, indent_unit, line_length))

JsReturn ==
  LET last == js_flush(scan, indent_unit)
  IN Return("format_js_ts", last,
            js_finish(last.result, indent_unit, last.current_indent_level))

\* lines 717-718: main takes what format_code returned
MainFormatted ==
  /\ pc = "returned"
  /\ caller # "direct"
  /\ IF formatted.ok
     THEN pc' = "write" /\ UNCHANGED error
     ELSE pc' = "failed" /\ error' = "FormatFailure"
  /\ UNCHANGED <<caller, input, raw_content, indent, line_length, content, file_type,
                 scan, formatted, output>>

\* lines 720-724: the output file is written; the write can fail
WriteOutput ==
  /\ pc = "write"
  /\ \/ /\ output' = [written |-> TRUE, text |-> formatted.value]
        /\ pc' = "done"
        /\ UNCHANGED error
     \/ /\ pc' = "failed"
        /\ error' = "OutputWriteFailure"
        /\ UNCHANGED output
  /\ UNCHANGED <<caller, input, raw_content, indent, line_length, content, file_type,
                 scan, formatted>>

Engines ==
  \/ HtmlStep
  \/ HtmlReturn
  \/ CssStep
  \/ CssReturn
  \/ JsStep
  \/ JsReturn

Next ==
  \/ ReadInput
  \/ GetFileType
  \/ FormatCode
  \/ Engines
  \/ MainFormatted
  \/ WriteOutput

Spec == Init /\ [][Next]_vars

\* the formatter run again on the file its previous run wrote: the same
\* path (hence language) and settings, the written text as the input file
RunAgain ==
  /\ pc = "done"
  /\ caller = "main"
  /\ output.written
  /\ pc' = "main"
  /\ caller' = "again"
  /\ raw_content' = output.text
  /\ content' = <<>>
  /\ file_type' = <<>>
  /\ scan' = NoScan
  /\ formatted' = NotReturned
  /\ output' = NoOutput
  /\ UNCHANGED <<input, indent, line_length, error>>

NextAgain ==
  \/ Next
  \/ RunAgain

SpecAgain == Init /\ [][NextAgain]_vars

\* format_code called on its own, with any file type and any text
InitCall ==
  /\ pc = "format_code"
  /\ caller = "direct"
  /\ input = <<>>
  /\ raw_content = <<>>
  /\ \/ file_type \in {Html, Css, Js} /\ content \in Contents
     \/ file_type \in CallTypes /\ content \in Examples
  /\ indent \in Indents
  /\ line_length \in LineLengths
  /\ scan = NoScan
  /\ formatted = NotReturned
  /\ output = NoOutput
  /\ error = "none"

NextCall ==
  \/ FormatCode
  \/ Engines

SpecCall == InitCall /\ [][NextCall]_vars

\* add_operator_spaces called on its own: content is the fragment, formatted
\* the returned text; the second call is given the text the first returned
InitSpacer ==
  /\ pc = "add_operator_spaces"
  /\ caller = "direct"
  /\ input = <<>>
  /\ raw_content = <<>>
  /\ file_type = <<>>
  /\ content \in Fragments
  /\ indent = 0
  /\ line_length = 0
  /\ scan = NoScan
  /\ formatted = NotReturned
  /\ output = NoOutput
  /\ error = "none"

SpaceOnce ==
  /\ pc = "add_operator_spaces"
  /\ formatted' = [ok |-> TRUE, value |-> add_operator_spaces(content), error |-> "none"]
  /\ pc' = "spaced"
  /\ UNCHANGED <<caller, input, raw_content, indent, line_length, content, file_type,
                 scan, output, error>>

SpaceAgain ==
  /\ pc = "spaced"
  /\ formatted' = [ok |-> TRUE, value |-> add_operator_spaces(formatted.value),
                   error |-> "none"]
  /\ pc' = "spaced_twice"
  /\ UNCHANGED <<caller, input, raw_content, indent, line_length, content, file_type,
                 scan, output, error>>

NextSpacer ==
  \/ SpaceOnce
  \/ SpaceAgain

SpecSpacer == InitSpacer /\ [][NextSpacer]_vars

\* split_clustered_brackets called on its own: content is the text, indent
\* the width of the indent unit, scan the loop state together with the index
\* chars of the next character and the argument current_indent
InitSplitter ==
  /\ pc = "split_clustered_brackets"
  /\ caller = "direct"
  /\ input = <<>>
  /\ raw_content = <<>>
  /\ file_type = <<>>
  /\ content \in BracketTexts
  /\ indent \in Indents
  /\ line_length = 0
  /\ \E b \in BaseLevels :
       scan = [chars |-> 1, current_indent |-> b, result |-> <<>>,
               bracket_stack |-> <<>>, consecutive_brackets |-> 0,
               current_line_length |-> 0]
  /\ formatted = NotReturned
  /\ output = NoOutput
  /\ error = "none"

\* lines 125-183: one iteration of the loop
SplitStep ==
  /\ pc = "split_clustered_brackets"
  /\ scan.chars <= Len(content)
  /\ scan' = [split_step(content, scan.chars, scan, indent_unit, scan.current_indent)
                EXCEPT !.chars = @ + 1]
  /\ UNCHANGED <<pc, caller, input, raw_content, indent, line_length, content,
                 file_type, formatted, output, error>>

\* line 184: the result is returned
SplitReturn ==
  /\ pc = "split_clustered_brackets"
  /\ scan.chars > Len(content)
  /\ formatted' = [ok |-> TRUE, value |-> scan.result, error |-> "none"]
  /\ pc' = "split"
  /\ UNCHANGED <<caller, input, raw_content, indent, line_length, content, file_type,
                 scan, output, error>>

NextSplitter ==
  \/ SplitStep
  \/ SplitReturn

SpecSplitter == InitSplitter /\ [][NextSplitter]_vars

\* ------------------------------------------------------------------------
\* Claims
\* ------------------------------------------------------------------------

EnginePcs == {"format_html", "format_css", "format_js_ts"}

\* the lines of a text: the maximal pieces without a newline
lines_of(t) ==
  LET cut == {0, Len(t) + 1} \cup {k \in 1..Len(t) : t[k] = "\n"}
  IN {SubSeq(t, a + 1, b - 1) :
        <<a, b>> \in {x \in cut \X cut :
                        x[1] < x[2] /\ \A m \in cut : ~(x[1] < m /\ m < x[2])}}

\* C1: the text a run of main produces (carriage returns stripped, content
\* trimmed, then formatted by format_code) ends with exactly one newline: its
\* last character is a newline and the character before it, if any, is not.
C1_EndsWithOneNewline ==
  (caller = "main" /\ pc \in {"returned", "write", "done"} /\ formatted.ok) =>
    LET t == formatted.value
    IN /\ Len(t) >= 1
       /\ t[Len(t)] = "\n"
       /\ Len(t) >= 2 => t[Len(t) - 1] # "\n"
       /\ output.written => output.text = t

\* C1 witness: a run on an HTML file whose text main had to trim wrote a
\* formatted file of more than one line
C1_Witness ==
  /\ pc = "done"
  /\ output.written
  /\ file_type = Html
  /\ content # raw_content
  /\ Cardinality(lines_of(output.text)) > 2

\* The nesting depth of the structural tokens of a scanned text, as spec.md
\* defines them (sections 4.3 to 4.5 and the glossary), independent of the
\* engines' indent counters: an opener adds one, a closer takes one back
\* unless the depth is zero.
close_depth(d) == IF d > 0 THEN d - 1 ELSE 0

\* the tag name: the tag text up to the first blank or `/`
tag_name(body) ==
  LET stops == {k \in 1..Len(body) : body[k] \in {" ", "\t", "\n", "\r", "/"}}
  IN IF stops = {} THEN body
     ELSE SubSeq(body, 1, (CHOOSE k \in stops : \A m \in stops : k <= m) - 1)

\* spec.md 4.3: closing tag; self-closing (ends with `/`, or the tag name is a
\* void element); doctype, processing instruction or comment; opening tag
element_class(tag_buf) ==
  LET body == trim_end_matches(tag_buf, {">"})
  IN IF starts_with(body, <<"/">>) THEN "closing"
     ELSE IF ends_with(body, <<"/">>) \/ tag_name(body) \in VoidTags THEN "self_closing"
     ELSE IF starts_with(body, <<"!">>) \/ starts_with(body, <<"?">>) THEN "other"
     ELSE "opening"

\* does the tag opened by the `<` at content[i] name a void element
is_void_tag(t, i) ==
  LET body == trim_end_matches(SubSeq(t, i + 1, tag_end(t, i)), {">"})
  IN ~starts_with(body, <<"/">>) /\ tag_name(body) \in VoidTags

html_nesting_step(t, k, st) ==
  IF k < st.i THEN st
  ELSE IF t[k] = "<"
  THEN LET last  == tag_end(t, k)
           class == element_class(SubSeq(t, k + 1, last))
       IN [i |-> last + 1,
           depth |-> IF class = "opening" THEN st.depth + 1
                     ELSE IF class = "closing" THEN close_depth(st.depth)
                     ELSE st.depth]
  ELSE [i |-> k + 1, depth |-> st.depth]

RECURSIVE html_nesting_range(_, _, _, _)
html_nesting_range(t, lo, hi, st) ==
  IF lo > hi THEN st
  ELSE IF lo = hi THEN html_nesting_step(t, lo, st)
  ELSE LET mid  == (lo + hi) \div 2
           left == html_nesting_range(t, lo, mid, st)
       IN IF left.i > mid THEN html_nesting_range(t, mid + 1, hi, left) ELSE left

html_nesting(t) == html_nesting_range(t, 1, Len(t), [i |-> 1, depth |-> 0]).depth

\* spec.md 4.4 and 4.5: braces count outside comments (and, for JS/TS,
\* outside string literals). mode is "code", "line" (after //), "block"
\* (after /*) or the quote character of the open string literal.
brace_nesting_step(t, k, st, js) ==
  IF k < st.i THEN st
  ELSE LET c == t[k]
           two == IF k < Len(t) THEN <<c, t[k + 1]>> ELSE <<c>>
       IN IF st.mode = "block"
          THEN IF two = <<"*", "/">> THEN [st EXCEPT !.i = k + 2, !.mode = "code"]
               ELSE [st EXCEPT !.i = k + 1]
          ELSE IF st.mode = "line"
          THEN [st EXCEPT !.i = k + 1, !.mode = IF c = "\n" THEN "code" ELSE @]
          ELSE IF st.mode # "code"
          THEN [st EXCEPT !.i = k + 1, !.mode = IF c = st.mode THEN "code" ELSE @]
          ELSE IF two = <<"/", "*">> THEN [st EXCEPT !.i = k + 2, !.mode = "block"]
          ELSE IF js /\ two = <<"/", "/">> THEN [st EXCEPT !.i = k + 2, !.mode = "line"]
          ELSE IF js /\ c \in {"\"", "'"} THEN [st EXCEPT !.i = k + 1, !.mode = c]
          ELSE IF c = "{" THEN [st EXCEPT !.i = k + 1, !.depth = @ + 1]
          ELSE IF c = "}" THEN [st EXCEPT !.i = k + 1, !.depth = close_depth(@)]
          ELSE [st EXCEPT !.i = k + 1]

RECURSIVE brace_nesting_range(_, _, _, _, _)
brace_nesting_range(t, lo, hi, st, js) ==
  IF lo > hi THEN st
  ELSE IF lo = hi THEN brace_nesting_step(t, lo, st, js)
  ELSE LET mid  == (lo + hi) \div 2
           left == brace_nesting_range(t, lo, mid, st, js)
       IN IF left.i > mid THEN brace_nesting_range(t, mid + 1, hi, left, js) ELSE left

brace_nesting(t, js) ==
  brace_nesting_range(t, 1, Len(t), [i |-> 1, depth |-> 0, mode |-> "code"], js).depth

nesting(engine, t) ==
  IF engine = "format_html" THEN html_nesting(t)
  ELSE brace_nesting(t, engine = "format_js_ts")

\* C2: at every step of the scan of format_html, format_css and format_js_ts
\* current_indent_level is at least 0 and at most the number of opening
\* structural tokens seen so far that no closer has matched (element-opening
\* tags for HTML, `{` for CSS and JS/TS).
C2_IndentWithinNesting ==
  pc \in EnginePcs =>
    /\ scan.current_indent_level >= 0
    /\ scan.current_indent_level <= nesting(pc, SubSeq(content, 1, scan.chars - 1))

\* C3: in format_html a tag whose tag name is a void element (meta, link,
\* img, br, hr), with or without attributes, leaves current_indent_level
\* unchanged.
C3_VoidTagKeepsIndent ==
  [][(/\ pc = "format_html"
      /\ pc' = "format_html"
      /\ scan.chars <= Len(content)
      /\ content[scan.chars] = "<"
      /\ is_void_tag(content, scan.chars))
     => scan'.current_indent_level = scan.current_indent_level]_vars

\* the pieces of a text between the occurrences of a separator, in order
split_at(t, sep) ==
  LET cut    == {0, Len(t) + 1} \cup {k \in 1..Len(t) : t[k] = sep}
      pos(n) == CHOOSE p \in cut : Cardinality({q \in cut : q < p}) = n - 1
  IN [n \in 1..(Cardinality(cut) - 1) |-> SubSeq(t, pos(n) + 1, pos(n + 1) - 1)]

\* the output spec.md gives for CssExample at indent 2 and line length 80
CssExampleExpected ==
  <<"a", " ", "{", "\n", " ", " ", "c", "o", "l", "o", "r", ":", " ", "r", "e", "d", ";", " ", "m", "a", "r", "g", "i", "n", ":", " ", "0", ";", " ", "p", "a", "d", "d", "i", "n", "g", ":", " ", "0", ";", "\n", "}", "\n">>

\* C4: format_css on `a{color:red;margin:0;padding:0}` with indent 2 and max
\* line length 80 returns exactly `a {`, one indented line holding the three
\* declarations joined compactly, the closing brace line and a single
\* trailing newline, each declaration appearing exactly once.
C4_CssExampleOutput ==
  (/\ pc = "returned"
   /\ file_type = Css
   /\ content = CssExample
   /\ indent = 2
   /\ line_length = 80)
  => formatted.value = CssExampleExpected

\* a text that is one top-level rule: a selector, `{`, declarations, `}`,
\* with no other brace, no comment and no line break
is_single_rule(t) ==
  /\ Len(t) >= 3
  /\ t[Len(t)] = "}"
  /\ t[1] \notin {"{", "}"}
  /\ Cardinality({k \in 1..Len(t) : t[k] = "{"}) = 1
  /\ Cardinality({k \in 1..Len(t) : t[k] = "}"}) = 1
  /\ \A k \in 1..Len(t) : t[k] \notin {"/", "\n", "\r"}

\* the declarations of a single rule, in order: the pieces of its body
\* between semicolons, trimmed, the empty ones dropped
rule_declarations(t) ==
  LET open == CHOOSE k \in 1..Len(t) : t[k] = "{"
      body == SubSeq(t, open + 1, Len(t) - 1)
      pieces == split_at(body, ";")
  IN SelectSeq([n \in 1..Len(pieces) |-> trim(pieces[n])], LAMBDA d : d # <<>>)

\* C5: for a rule with more than 3 declarations, or whose declarations joined
\* with "; " do not fit under the max line length at the current indent, each
\* declaration appears in the output on a line of its own, indented exactly
\* one level deeper than the selector line (a top-level rule: one indent unit).
C5_ExpandedDeclarations ==
  (/\ pc = "returned"
   /\ file_type = Css
   /\ is_single_rule(content)
   /\ LET decls == rule_declarations(content)
      IN \/ Len(decls) > 3
         \/ Len(join_decls(decls)) + indent >= line_length)
  => LET decls == rule_declarations(content)
     IN \A n \in 1..Len(decls) :
          (indent_unit \o format_decl(decls[n])) \o <<";">> \in lines_of(formatted.value)

\* the `return` line spec.md expects of JsExample at indent 2
JsExampleReturnLine ==
  <<" ", " ", "r", "e", "t", "u", "r", "n", " ", "a", " ", "+", " ", "b", ";">>

\* C6: format_js_ts on `function f(a,b){return a+b;}` with indent 2 returns a
\* text in which a newline directly follows `{`, the return statement is a
\* line indented by exactly two spaces with the expression as `a + b`, a
\* newline directly follows `;`, and the closing `}` is a line of its own
\* without leading spaces.
C6_JsExampleLayout ==
  (/\ pc = "returned"
   /\ file_type \in {Js, Ts}
   /\ content = JsExample
   /\ indent = 2)
  => LET t == formatted.value
     IN /\ \A k \in 1..Len(t) :
             t[k] \in {"{", ";"} => (k < Len(t) /\ t[k + 1] = "\n")
        /\ JsExampleReturnLine \in lines_of(t)
        /\ <<"}">> \in lines_of(t)

\* C7: add_operator_spaces is idempotent: applied to its own result it
\* returns that result unchanged, for every text fragment.
C7_Idempotent ==
  pc = "spaced_twice" => formatted.value = add_operator_spaces(content)

\* the operator tokens of a spaced text: its maximal runs of operator
\* characters, as <<first, last>> positions
operator_tokens(r) ==
  {x \in (1..Len(r)) \X (1..Len(r)) :
     /\ x[1] <= x[2]
     /\ \A k \in x[1]..x[2] : r[k] \in OperatorChars
     /\ x[1] = 1 \/ r[x[1] - 1] \notin OperatorChars
     /\ x[2] = Len(r) \/ r[x[2] + 1] \notin OperatorChars}

\* C8: in the result of add_operator_spaces every operator token has exactly
\* one space before it and exactly one after it, whitespace next to it in the
\* input being collapsed to that one space, except directly after an opening
\* delimiter and directly before a closing delimiter, a comma or a
\* semicolon (and at the two ends of the fragment).
C8_OneSpaceAroundOperators ==
  pc = "spaced" =>
    LET r == formatted.value
    IN \A x \in operator_tokens(r) :
         /\ (x[1] > 1 /\ r[x[1] - 1] \notin OpenDelims) =>
              /\ r[x[1] - 1] = " "
              /\ x[1] > 2 => ~is_whitespace(r[x[1] - 2])
         /\ (x[2] < Len(r) /\ r[x[2] + 1] \notin (CloseDelims \cup {",", ";"})) =>
              /\ r[x[2] + 1] = " "
              /\ x[2] + 1 < Len(r) => ~is_whitespace(r[x[2] + 2])

\* the engine spec.md assigns to each path of the runs, "none" for a path
\* that is rejected; written out path by path, independently of get_file_type
expected_engine(path) ==
  IF path \in {<<"a", ".", "h", "t", "m", "l">>, <<"a", ".", "H", "T", "M", "L">>}
  THEN "format_html"
  ELSE IF path \in {<<"a", ".", "c", "s", "s">>, <<"a", ".", "C", "s", "s">>}
  THEN "format_css"
  ELSE IF path \in {<<"a", ".", "j", "s">>, <<"a", ".", "t", "s">>, <<"a", ".", "J", "S">>, <<"a", ".", "t", "S">>}
  THEN "format_js_ts"
  ELSE "none"

\* C9: a run whose input path has no extension, or an extension other than
\* html, css, js, ts in any letter case, invokes no engine, never writes the
\* output file, and is rejected by get_file_type; a run whose extension is one
\* of the four, in any letter case, invokes the matching engine and no other,
\* and is not rejected for its extension.
C9_ExtensionDecides ==
  caller = "main" =>
    IF expected_engine(input) = "none"
    THEN /\ pc \in {"main", "get_file_type", "failed"}
         /\ ~output.written
         /\ pc = "get_file_type" => ~get_file_type(input).ok
    ELSE /\ pc \in EnginePcs => pc = expected_engine(input)
         /\ pc = "format_code" => engine_of(file_type) = expected_engine(input)
         /\ error \notin {"MissingExtension", "UnsupportedExtension"}

\* C9 witness: the run on a.txt was rejected for its extension after the
\* file was read, and nothing was formatted or written
C9_Witness ==
  /\ pc = "failed"
  /\ input = <<"a", ".", "t", "x", "t">>
  /\ error = "UnsupportedExtension"
  /\ content # <<>>
  /\ formatted = NotReturned
  /\ ~output.written

\* C10: format_code called with the file type html, css, js or ts returns a
\* formatted string for every content, never an error and never an abort; it
\* returns the unsupported-file-type error exactly when the file type is none
\* of the four.
C10_FormatCodeTotal ==
  caller = "direct" =>
    /\ pc # "panicked"
    /\ pc \in EnginePcs \cup {"format_code", "returned"}
    /\ pc = "returned" =>
         /\ formatted.ok <=> file_type \in SupportedTypes
         /\ ~formatted.ok => formatted.error = "UnsupportedFileType"

\* C10 witness: format_code returned a text for an HTML content that is an
\* unmatched closing tag followed by an unterminated comment
C10_Witness ==
  /\ caller = "direct"
  /\ pc = "returned"
  /\ formatted.ok
  /\ file_type = Html
  /\ content = <<"<", "/", "p", ">", "<", "!", "-", "-">>
  /\ scan.in_comment

\* the leading indentation of each line of a text, in order
line_indents(t) ==
  LET ls == split_at(t, "\n")
  IN [n \in 1..Len(ls) |-> Len(ls[n]) - Len(trim_start(ls[n]))]

\* C11: formatting the formatter's own output again, with the same language
\* and settings, returns a text with the same number of lines and the same
\* leading indentation on each line as the first output.
C11_RoundTripIndent ==
  (caller = "again" /\ pc \in {"returned", "write", "done"} /\ formatted.ok)
  => line_indents(formatted.value) = line_indents(raw_content)

\* does pat occur in s
occurs(s, pat) == \E i \in 1..(Len(s) + 1) : occurs_at(s, pat, i)

\* The string literals of a JS/TS text as spec.md describes them: from a
\* quote seen outside comments and literals up to the next occurrence of the
\* same quote; one step of the scan that finds them.
literal_step(t, k, st) ==
  IF st.i # k THEN st
  ELSE LET c    == t[k]
           next == IF k < Len(t) THEN t[k + 1] ELSE ""
       IN IF st.mode = "line"
          THEN [st EXCEPT !.i = k + 1, !.mode = IF c = "\n" THEN "code" ELSE @]
          ELSE IF st.mode = "block"
          THEN IF c = "*" /\ next = "/"
               THEN [st EXCEPT !.i = k + 2, !.mode = "code"]
               ELSE [st EXCEPT !.i = k + 1]
          ELSE IF st.mode # "code"
          THEN IF c = st.mode
               THEN [st EXCEPT !.i = k + 1, !.mode = "code",
                               !.literals = @ \cup {SubSeq(t, st.start, k)}]
               ELSE [st EXCEPT !.i = k + 1]
          ELSE IF c \in {"'", "\""}
          THEN [st EXCEPT !.i = k + 1, !.mode = c, !.start = k]
          ELSE IF c = "/" /\ next = "/" THEN [st EXCEPT !.i = k + 2, !.mode = "line"]
          ELSE IF c = "/" /\ next = "*" THEN [st EXCEPT !.i = k + 2, !.mode = "block"]
          ELSE [st EXCEPT !.i = k + 1]

RECURSIVE literal_range(_, _, _, _)
literal_range(t, lo, hi, st) ==
  IF lo > hi THEN st
  ELSE IF lo = hi THEN literal_step(t, lo, st)
  ELSE LET mid  == (lo + hi) \div 2
           left == literal_range(t, lo, mid, st)
       IN IF left.i > mid THEN literal_range(t, mid + 1, hi, left) ELSE left

string_literals(t) ==
  literal_range(t, 1, Len(t),
                [i |-> 1, mode |-> "code", start |-> 0, literals |-> {}]).literals

\* C12: the characters of every string literal of a JS/TS input, from its
\* opening quote to the matching quote, appear in the text format_js_ts
\* returns unchanged: no operator spacing, whitespace collapsing, bracket
\* splitting or line break inside the literal.
C12_LiteralsUnchanged ==
  (pc = "returned" /\ file_type \in {Js, Ts} /\ formatted.ok)
  => \A lit \in string_literals(content) : occurs(formatted.value, lit)

\* The quoted attribute values of an HTML text as spec.md describes them:
\* inside a tag (from `<` outside a comment to `>`), from a quote to the next
\* occurrence of the same quote, the quotes included; one step of the scan.
attribute_step(t, k, st) ==
  IF st.i # k THEN st
  ELSE LET c == t[k]
       IN IF st.mode = "text"
          THEN IF occurs_at(t, <<"<", "!", "-", "-">>, k)
               THEN [st EXCEPT !.i = k + 4, !.mode = "comment"]
               ELSE [st EXCEPT !.i = k + 1, !.mode = IF c = "<" THEN "tag" ELSE @]
          ELSE IF st.mode = "comment"
          THEN IF occurs_at(t, <<"-", "-", ">">>, k)
               THEN [st EXCEPT !.i = k + 3, !.mode = "text"]
               ELSE [st EXCEPT !.i = k + 1]
          ELSE IF st.mode = "tag"
          THEN IF c = ">" THEN [st EXCEPT !.i = k + 1, !.mode = "text"]
               ELSE IF c \in {"'", "\""} THEN [st EXCEPT !.i = k + 1, !.mode = c, !.start = k]
               ELSE [st EXCEPT !.i = k + 1]
          ELSE IF c = st.mode
          THEN [st EXCEPT !.i = k + 1, !.mode = "tag",
                          !.values = @ \cup {SubSeq(t, st.start, k)}]
          ELSE [st EXCEPT !.i = k + 1]

RECURSIVE attribute_range(_, _, _, _)
attribute_range(t, lo, hi, st) ==
  IF lo > hi THEN st
  ELSE IF lo = hi THEN attribute_step(t, lo, st)
  ELSE LET mid  == (lo + hi) \div 2
           left == attribute_range(t, lo, mid, st)
       IN IF left.i > mid THEN attribute_range(t, mid + 1, hi, left) ELSE left

attribute_values(t) ==
  attribute_range(t, 1, Len(t),
                  [i |-> 1, mode |-> "text", start |-> 0, values |-> {}]).values

\* C13: the text of every quoted attribute value of an HTML input, between
\* its matching quotes inside a tag, appears in the text format_html returns
\* unchanged, with its internal whitespace and any `=` or operator character.
C13_AttributeValuesUnchanged ==
  (pc = "returned" /\ file_type = Html /\ formatted.ok)
  => \A v \in attribute_values(content) : occurs(formatted.value, v)

\* The comments of a CSS text as spec.md describes them: from `/*`, wherever
\* it occurs, to the next `*/`; one step of the scan that finds them.
comment_step(t, k, st) ==
  IF st.i # k THEN st
  ELSE IF st.mode = "code"
  THEN IF occurs_at(t, <<"/", "*">>, k)
       THEN [i |-> k + 2, mode |-> "comment"]
       ELSE [i |-> k + 1, mode |-> "code"]
  ELSE IF occurs_at(t, <<"*", "/">>, k)
       THEN [i |-> k + 2, mode |-> "code"]
       ELSE [i |-> k + 1, mode |-> "comment"]

RECURSIVE comment_range(_, _, _, _)
comment_range(t, lo, hi, st) ==
  IF lo > hi THEN st
  ELSE IF lo = hi THEN comment_step(t, lo, st)
  ELSE LET mid  == (lo + hi) \div 2
           left == comment_range(t, lo, mid, st)
       IN IF left.i > mid THEN comment_range(t, mid + 1, hi, left) ELSE left

\* is the character at index k of t inside a comment
inside_comment(t, k) ==
  LET st == comment_range(t, 1, k - 1, [i |-> 1, mode |-> "code"])
  IN st.i = k /\ st.mode = "comment"

\* C14: in format_css, after a `/*` at top level or inside a rule body and
\* until the matching `*/`, a `{`, `}` or `;` is not interpreted: the step
\* that scans it changes neither current_indent_level nor in_brace and
\* flushes no selector or declaration.
C14_CommentSuppressesStructure ==
  [][(/\ pc = "format_css" /\ pc' = "format_css"
      /\ scan.chars <= Len(content)
      /\ content[scan.chars] \in {"{", "}", ";"}
      /\ inside_comment(content, scan.chars))
     => /\ scan'.current_indent_level = scan.current_indent_level
        /\ scan'.in_brace = scan.in_brace
        /\ scan'.temp_char = scan.temp_char
        /\ scan'.current_declarations = scan.current_declarations]_vars

\* does a text hold three adjacent delimiters on one line
has_cluster(t) ==
  \E k \in 1..(Len(t) - 2) :
    \A m \in k..(k + 2) : t[m] \in OpenDelims \cup CloseDelims

\* the number of line breaks of a text
newlines(t) == Cardinality({k \in 1..Len(t) : t[k] = "\n"})

\* the spaces that follow the last line break of a text
indent_after_break(t) ==
  LET nl    == {k \in 1..Len(t) : t[k] = "\n"}
      last  == CHOOSE k \in nl : \A m \in nl : m <= k
      after == SubSeq(t, last + 1, Len(t))
      keep  == {k \in 1..Len(after) : after[k] # " "}
  IN IF keep = {} THEN Len(after)
     ELSE (CHOOSE k \in keep : \A m \in keep : k <= m) - 1

\* C15: split_clustered_brackets breaks every run of three or more
\* consecutive opening or closing delimiters: no line of the text it returns
\* holds three adjacent delimiters, and each break it inserts at a delimiter
\* is a newline followed by exactly (base level + delimiter-stack depth)
\* indent units, the depth never going below zero.
C15_ClustersBroken ==
  [][/\ (/\ pc = "split_clustered_brackets" /\ pc' = "split_clustered_brackets"
          /\ content[scan.chars] \in OpenDelims \cup CloseDelims
          /\ newlines(scan'.result) > newlines(scan.result))
         => indent_after_break(scan'.result)
              = indent * (scan.current_indent + Len(scan'.bracket_stack))
     /\ (pc = "split_clustered_brackets" /\ pc' = "split")
         => /\ Len(scan.bracket_stack) >= 0
            /\ ~has_cluster(formatted'.value)]_vars

====
